---- MODULE Spec2Model ----
(***************************************************************************)
(* Aadhaar verification routes (backend/src/routes/aadhaarVerification.js) *)
(* as a state machine: the record store, the custom-field registry, the    *)
(* last request and its response.  One action per route handler; every     *)
(* handler is atomic (one request at a time), except that PATCH is also     *)
(* modelled in its two steps, read and save, for requests that overlap.     *)
(*                                                                         *)
(* Strings are sequences of one-character strings.  A JSON body value is a *)
(* record [t, s]: its JavaScript type and, for strings and numbers, its    *)
(* characters (a number is held as its decimal digits).                    *)
(*                                                                         *)
(* Environment: the external verification client may throw; in the two     *)
(* OTP-verify handlers the record save and the audit-log call may throw    *)
(* too.  Database reads, and the writes of PATCH and of the selfie         *)
(* uploads, are taken to succeed.                                          *)
(***************************************************************************)
EXTENDS Integers, Sequences, FiniteSets, TLC

VARIABLES records, pre, req, res, fieldDefs, inflight

vars == <<records, pre, req, res, fieldDefs, inflight>>

(* ------------------------------ bounds --------------------------------- *)

\* The record store holds at most MaxRecords records.
MaxRecords == 1

\* The custom-field registry holds at most MaxDefs definitions.
MaxDefs == 2

(* --------------------------- program constants ------------------------- *)

AadhaarLen == 12
OtpLen == 6

(* ------------------------------ strings -------------------------------- *)

Digits == {"0", "1", "2", "3", "4", "5", "6", "7", "8", "9"}
Whitespace == {" ", "\t"}

\* n copies of the character c
Rep(c, n) == [i \in 1..n |-> c]

\* String.prototype.replace(/\s/g, '')
stripWhitespace(s) == SelectSeq(s, LAMBDA c : c \notin Whitespace)

\* /^\d{n}$/.test(s), s a string
digitsRegexTest(n, s) == Len(s) = n /\ \A i \in 1..Len(s) : s[i] \in Digits

\* a prefix test that accepts every string
startsWith_Any(s, p) == TRUE

\* String.prototype.startsWith
startsWith(s, p) == Len(s) >= Len(p) /\ SubSeq(s, 1, Len(p)) = p

(* ---------------------------- JSON values ------------------------------ *)

Undefined == [s |-> <<>>, t |-> "undefined"]
Str(s) == [s |-> s, t |-> "string"]
Num(s) == [s |-> s, t |-> "number"]
JsTrue == [s |-> <<"t">>, t |-> "boolean"]
JsFalse == [s |-> <<>>, t |-> "boolean"]
Null == [s |-> <<>>, t |-> "null"]
\* the object { $ne: s }, as the query-string parser builds it from status[$ne]=s
NotEqual(s) == [s |-> s, t |-> "object"]

\* JavaScript truthiness (the operand of `!`)
Truthy(v) ==
    CASE v.t \in {"undefined", "null"} -> FALSE
      [] v.t = "string" -> v.s # <<>>
      [] v.t = "number" -> v.s # <<"0">>
      [] v.t = "boolean" -> v.s # <<>>
      [] v.t = "object" -> TRUE

\* String(v), the conversion RegExp.prototype.test applies to its argument
jsString(v) ==
    CASE v.t = "undefined" -> <<"u", "n", "d", "e", "f", "i", "n", "e", "d">>
      [] v.t = "null" -> <<"n", "u", "l", "l">>
      [] v.t = "string" -> v.s
      [] v.t = "number" -> v.s
      [] v.t = "boolean" -> IF v.s = <<>> THEN <<"f", "a", "l", "s", "e">>
                                          ELSE <<"t", "r", "u", "e">>

\* v.replace exists only on strings: calling it on anything else throws
hasReplace(v) == v.t = "string"

(* ------------------------------- users --------------------------------- *)

\* The User collection (read-only here): role, moduleAccess and QR code.
Users ==
    [u1 |-> [moduleAccess |-> {"selfie-upload", "qr-code"},
             qrCode |-> [code |-> "q1", isActive |-> TRUE], role |-> "user"],
     u2 |-> [moduleAccess |-> {"qr-code"},
             qrCode |-> [code |-> "q2", isActive |-> TRUE], role |-> "user"],
     u3 |-> [moduleAccess |-> {"qr-code"},
             qrCode |-> [code |-> "q3", isActive |-> TRUE], role |-> "admin"],
     u4 |-> [moduleAccess |-> {"selfie-upload"},
             qrCode |-> [code |-> "q4", isActive |-> FALSE], role |-> "user"],
     u5 |-> [moduleAccess |-> {"selfie-upload"},
             qrCode |-> [code |-> "q5", isActive |-> TRUE], role |-> "user"]]

UserIds == DOMAIN Users
NoUser == "nobody"
QrCodes == {"q0", "q1", "q2", "q3", "q4", "q5"}

\* User.findOne({ 'qrCode.code': qrCode, 'qrCode.isActive': true })
findUserByQr(qrCode) ==
    LET hits == {u \in UserIds : Users[u].qrCode.code = qrCode
                                  /\ Users[u].qrCode.isActive}
    IN IF hits = {} THEN NoUser ELSE CHOOSE u \in hits : TRUE

\* user.moduleAccess && user.moduleAccess.includes(m)
hasModule(u, m) == m \in Users[u].moduleAccess

(* ------------------------------ records -------------------------------- *)

NoSelfie == "none"
Stamp == <<"1">>
OtpBatchPrefix ==
    <<"O", "T", "P", "_", "V", "E", "R", "I", "F", "I", "C", "A", "T", "I", "O", "N", "_">>
QrBatchPrefix == <<"q", "r", "-">>

\* record ids are positions in the store; BadId is no ObjectId at all
BadId == 0
recordExists(id) == id \in 1..Len(records)

(* ----------------------------- responses ------------------------------- *)

\* req.query of GET /records (lines 64-72); a request that names none
Query(page, limit, search, status, dateFrom, dateTo, sortBy, sortOrder) ==
    [dateFrom |-> dateFrom, dateTo |-> dateTo, limit |-> limit, page |-> page,
     search |-> search, sortBy |-> sortBy, sortOrder |-> sortOrder,
     status |-> status]
NoQuery ==
    Query(Undefined, Undefined, Undefined, Undefined, Undefined, Undefined,
          Undefined, Undefined)

\* a request: the route, the authenticated user (req.user.id) or the QR code and
\* record id of the path, the body fields and the uploaded file
Request(handler, userId, qrCode, id, aadhaarNumber, otp, transactionId, consentAccepted, dynamicFields, file) ==
    [aadhaarNumber |-> aadhaarNumber, consentAccepted |-> consentAccepted,
     dynamicFields |-> dynamicFields, file |-> file, handler |-> handler,
     id |-> id, otp |-> otp, qrCode |-> qrCode, query |-> NoQuery,
     transactionId |-> transactionId, userId |-> userId]

\* the external verify call was not made, or threw
NoUpstream == [data |-> "none", dataStatus |-> "none", status |-> "none"]

\* res.status(status).json({ message }).  calls is the sequence of calls the
\* handler made, while handling the request, to the external verification client
\* ("sendOtp", "verifyOtp"), to the store ("save", "update") and to the audit log
\* ("audit", "find", "decrypt"), each with its outcome; sent is the image written to the body,
\* allow the Allow header, data and total the page and the totalRecords of a
\* listing, upstream what the external verify call resolved to.
Response(status, message, calls) ==
    [allow |-> "none", calls |-> calls, data |-> <<>>, message |-> message,
     sent |-> NoSelfie, status |-> status, total |-> 0, upstream |-> NoUpstream]

\* the handler answers and writes nothing
Reply(r, status, message, calls) ==
    /\ req' = r
    /\ res' = Response(status, message, calls)
    /\ pre' = records
    /\ UNCHANGED <<records, fieldDefs, inflight>>

\* the handler answers after storing the list of records rs
ReplyStoring(r, rs, status, message, calls) ==
    /\ req' = r
    /\ res' = Response(status, message, calls)
    /\ pre' = records
    /\ records' = rs
    /\ UNCHANGED <<fieldDefs, inflight>>

(* ------------------------- external verification ----------------------- *)

\* What verifyAadhaarOTP resolves to: a top-level status, and a data object that
\* is absent ("none"), holds the provider's fields ("flat") or wraps them in a
\* further data object ("nested"); dataStatus is the status field found there.
VerifyResponses ==
    [data : {"flat", "nested"}, dataStatus : {"VALID", "INVALID"},
     status : {"VALID", "INVALID"}]
    \cup [data : {"none"}, dataStatus : {"none"}, status : {"VALID", "INVALID"}]

Outcomes == {"ok", "throw"}

(* --------------------------- dynamic fields ---------------------------- *)

\* A dynamicFields body value is [t |-> "array", items |-> <<entry, ...>>] or a
\* value that is no array ([t |-> "other", items |-> <<>>]).  An entry is
\* [obj, label, value]: whether it is a non-null object, and its label and value
\* properties (Undefined when missing).
Entry(label, value) == [label |-> label, obj |-> TRUE, value |-> value]
NotAnObject == [label |-> Undefined, obj |-> FALSE, value |-> Undefined]
Array(items) == [items |-> items, t |-> "array"]
NotAnArray == [items |-> <<>>, t |-> "other"]

RECURSIVE trimStart(_)
trimStart(s) ==
    IF s # <<>> /\ Head(s) \in Whitespace THEN trimStart(Tail(s)) ELSE s

RECURSIVE trimEnd(_)
trimEnd(s) ==
    IF s # <<>> /\ s[Len(s)] \in Whitespace
    THEN trimEnd(SubSeq(s, 1, Len(s) - 1)) ELSE s

\* String.prototype.trim
trim(s) == trimEnd(trimStart(s))

isNullish(v) == v.t \in {"undefined", "null"}

\* a normalization without the second filter: blank labels stay
normalizeFields_KeepsBlankLabels(d) ==
    IF d.t # "array" THEN <<>>
    ELSE LET kept == SelectSeq(d.items, LAMBDA f : f.obj /\ ~isNullish(f.label))
         IN [i \in 1..Len(kept) |->
                [label |-> trim(jsString(kept[i].label)),
                 value |-> IF ~isNullish(kept[i].value)
                           THEN trim(jsString(kept[i].value))
                           ELSE <<>>]]

\* normalizedFields (lines 265-273)
normalizeFields(d) ==
    IF d.t # "array" THEN <<>>
    ELSE LET kept == SelectSeq(d.items, LAMBDA f : f.obj /\ ~isNullish(f.label))
             mapped == [i \in 1..Len(kept) |->
                           [label |-> trim(jsString(kept[i].label)),
                            value |-> IF ~isNullish(kept[i].value)
                                      THEN trim(jsString(kept[i].value))
                                      ELSE <<>>]]
         IN SelectSeq(mapped, LAMBDA f : f.label # <<>>)

\* the dynamicFields the OTP-verify handlers hand to the record, as stored:
\* each entry's label and value, cast to strings by the schema
storedFields(d) ==
    [i \in 1..Len(d.items) |->
        [label |-> jsString(d.items[i].label), value |-> jsString(d.items[i].value)]]

(* ------------------------------ send OTP ------------------------------- *)

\* the checks verify-single and verify-qr share (lines 307-328, 737-758):
\* "ok", the status 400 with its message, or "throw" (a TypeError, caught as 500)
sendValidation(r) ==
    IF ~Truthy(r.aadhaarNumber) THEN "Aadhaar Number is required"
    ELSE IF ~Truthy(r.consentAccepted) THEN "Consent is required to proceed"
    ELSE IF ~hasReplace(r.aadhaarNumber) THEN "throw"
    ELSE IF ~digitsRegexTest(AadhaarLen, stripWhitespace(r.aadhaarNumber.s))
         THEN "Invalid Aadhaar number format"
    ELSE "ok"

\* from the call of verifyAadhaar to the response (lines 332-352, 762-779)
SendOtp(r) ==
    \E ext \in Outcomes :
        IF ext = "throw"
        THEN Reply(r, 500, "Failed to send OTP", <<"sendOtp.throw">>)
        ELSE Reply(r, 200, "OTP sent successfully", <<"sendOtp.ok">>)

\* POST /verify-single
VerifySingle(r) ==
    /\ r.handler = "verify-single"
    /\ r.userId \in UserIds
    /\ LET v == sendValidation(r)
       IN IF v = "throw" THEN Reply(r, 500, "TypeError", <<>>)
          ELSE IF v # "ok" THEN Reply(r, 400, v, <<>>)
          ELSE SendOtp(r)

\* the QR lookup verify-qr and verify-otp-qr start with (lines 720-735, 797-812):
\* "ok", or the message of the 404 or 403
qrGate(r) ==
    LET user == findUserByQr(r.qrCode)
    IN IF user = NoUser THEN "Invalid or inactive QR code"
       ELSE IF ~hasModule(user, "qr-code")
            THEN "QR code module is not enabled for this user"
       ELSE "ok"

\* POST /verify-qr/:qrCode
VerifyQr(r) ==
    /\ r.handler = "verify-qr"
    /\ LET g == qrGate(r)
           v == sendValidation(r)
       IN IF g = "Invalid or inactive QR code" THEN Reply(r, 404, g, <<>>)
          ELSE IF g # "ok" THEN Reply(r, 403, g, <<>>)
          ELSE IF v = "throw" THEN Reply(r, 500, "TypeError", <<>>)
          ELSE IF v # "ok" THEN Reply(r, 400, v, <<>>)
          ELSE SendOtp(r)

(* ----------------------------- verify OTP ------------------------------ *)

\* the checks verify-otp and verify-otp-qr share (lines 369-391, 814-836)
otpValidation(r) ==
    IF ~Truthy(r.aadhaarNumber) \/ ~Truthy(r.otp) \/ ~Truthy(r.transactionId)
    THEN "Aadhaar Number, OTP, and Transaction ID are required"
    ELSE IF ~hasReplace(r.aadhaarNumber) THEN "throw"
    ELSE IF ~digitsRegexTest(AadhaarLen, stripWhitespace(r.aadhaarNumber.s))
         THEN "Invalid Aadhaar number format"
    ELSE IF ~digitsRegexTest(OtpLen, jsString(r.otp))
         THEN "Invalid OTP format. Must be 6 digits."
    ELSE "ok"

\* a record left pending when the provider does not say VALID
otpStatus_Pending(resp) ==
    IF resp.data # "none" /\ resp.dataStatus = "VALID" THEN "verified" ELSE "pending"

\* status of the record verify-otp builds (lines 408, 433):
\* apiData = otpResult.data?.data || otpResult.data || {}
otpStatus(resp) ==
    LET apiDataStatus == IF resp.data = "none" THEN "none" ELSE resp.dataStatus
    IN IF apiDataStatus = "VALID" THEN "verified" ELSE "rejected"

\* a record left pending when the provider does not say VALID
qrStatus_Pending(resp) == IF resp.status = "VALID" THEN "verified" ELSE "pending"

\* status of the record verify-otp-qr builds (line 868)
qrStatus(resp) == IF resp.status = "VALID" THEN "verified" ELSE "invalid"

\* new AadhaarVerification({...}) of verify-otp (lines 419-458)
otpRecord(r, resp) ==
    [aadhaarNumber |-> stripWhitespace(r.aadhaarNumber.s),
     batchId |-> OtpBatchPrefix \o Stamp,
     dynamicFields |-> storedFields(r.dynamicFields),
     selfie |-> NoSelfie,
     status |-> otpStatus(resp),
     userId |-> r.userId]

\* new AadhaarVerification({...}) of verify-otp-qr (lines 845-884)
qrRecord(r, resp) ==
    [aadhaarNumber |-> stripWhitespace(r.aadhaarNumber.s),
     batchId |-> QrBatchPrefix \o Stamp,
     dynamicFields |-> storedFields(r.dynamicFields),
     selfie |-> NoSelfie,
     status |-> qrStatus(resp),
     userId |-> findUserByQr(r.qrCode)]

\* the handler answers after verifyAadhaarOTP resolved to resp, the store being rs
ReplyAfterVerify(r, rs, resp, status, message, calls) ==
    /\ req' = r
    /\ res' = [Response(status, message, calls) EXCEPT !.upstream = resp]
    /\ pre' = records
    /\ records' = rs
    /\ UNCHANGED <<fieldDefs, inflight>>

\* verificationRecord.save(), the audit log and the response
\* (lines 460-484, 886-910)
SaveAndAnswer(r, rec, resp, okMessage) ==
    \E save \in Outcomes :
        IF save = "throw"
        THEN ReplyAfterVerify(r, records, resp, 500, "Failed to verify OTP",
                              <<"verifyOtp.ok", "save.throw">>)
        ELSE \E audit \in Outcomes :
            IF audit = "throw"
            THEN ReplyAfterVerify(r, Append(records, rec), resp, 500,
                                  "Failed to verify OTP",
                                  <<"verifyOtp.ok", "save.ok", "audit.throw">>)
            ELSE ReplyAfterVerify(r, Append(records, rec), resp, 200,
                                  IF rec.status = "verified" THEN okMessage
                                  ELSE "Invalid OTP. Verification rejected.",
                                  <<"verifyOtp.ok", "save.ok", "audit.ok">>)

\* POST /verify-otp
VerifyOtp(r) ==
    /\ r.handler = "verify-otp"
    /\ r.userId \in UserIds
    /\ LET v == otpValidation(r)
       IN IF v = "throw" THEN Reply(r, 500, "TypeError", <<>>)
          ELSE IF v # "ok" THEN Reply(r, 400, v, <<>>)
          ELSE /\ Len(records) < MaxRecords
               /\ \/ Reply(r, 500, "Failed to verify OTP", <<"verifyOtp.throw">>)
                  \/ \E resp \in VerifyResponses :
                        SaveAndAnswer(r, otpRecord(r, resp), resp,
                                      "OTP verification completed successfully")

\* POST /verify-otp-qr/:qrCode
VerifyOtpQr(r) ==
    /\ r.handler = "verify-otp-qr"
    /\ LET g == qrGate(r)
           v == otpValidation(r)
       IN IF g = "Invalid or inactive QR code" THEN Reply(r, 404, g, <<>>)
          ELSE IF g # "ok" THEN Reply(r, 403, g, <<>>)
          ELSE IF v = "throw" THEN Reply(r, 500, "TypeError", <<>>)
          ELSE IF v # "ok" THEN Reply(r, 400, v, <<>>)
          ELSE /\ Len(records) < MaxRecords
               /\ \/ Reply(r, 500, "Failed to verify OTP", <<"verifyOtp.throw">>)
                  \/ \E resp \in VerifyResponses :
                        IF resp.data = "none"
                        \* verificationResult.data.name throws a TypeError
                        THEN ReplyAfterVerify(r, records, resp, 500, "TypeError",
                                              <<"verifyOtp.ok">>)
                        ELSE SaveAndAnswer(r, qrRecord(r, resp), resp,
                                           "Verification completed successfully")

(* -------------------------- record endpoints --------------------------- *)

\* an ownership test that lets every caller pass
isOwner_Any(rec, userId) == TRUE

\* record.userId.toString() !== req.user.id (lines 258, 515, 658), negated
isOwner(rec, userId) == rec.userId = userId

\* the new entries appended to the stored list instead of replacing it
patchedFields_Merge(old, d) == old \o normalizeFields(d)

\* record.dynamicFields = normalizedFields (line 275): the list replaces the old one
patchedFields(old, d) == normalizeFields(d)

\* PATCH /records/:id
PatchRecord(r) ==
    /\ r.handler = "patch"
    /\ r.userId \in UserIds
    /\ IF r.id = BadId THEN Reply(r, 400, "Invalid record ID", <<>>)
       ELSE IF ~recordExists(r.id)
            THEN Reply(r, 404, "Verification record not found", <<>>)
       ELSE IF ~isOwner(records[r.id], r.userId)
            THEN Reply(r, 403, "Not authorized to update this record", <<>>)
       ELSE ReplyStoring(r,
                [records EXCEPT ![r.id].dynamicFields =
                     patchedFields(records[r.id].dynamicFields, r.dynamicFields)],
                200, "Dynamic fields updated", <<"save.ok">>)

\* a 405 that does not set the Allow header
RecordMethodNotAllowed_NoAllow(r) ==
    /\ r.handler = "records-id-other"
    /\ Reply(r, 405, "Use PATCH to update dynamic fields for this record", <<>>)

\* any other method on /records/:id (lines 293-300): res.set('Allow', 'PATCH'),
\* then the 405; the route has no protect middleware and reads no id
RecordMethodNotAllowed(r) ==
    /\ r.handler = "records-id-other"
    /\ req' = r
    /\ res' = [Response(405, "Use PATCH to update dynamic fields for this record", <<>>)
                  EXCEPT !.allow = "PATCH"]
    /\ pre' = records
    /\ UNCHANGED <<records, fieldDefs, inflight>>

\* a module check that only asks for the user to exist
selfieModuleDenied_OnlyMissingUser(u) == u \notin UserIds

\* user.role !== 'admin' && (!user.moduleAccess ||
\*   !user.moduleAccess.includes('selfie-upload'))  (lines 523, 600)
selfieModuleDenied(u) ==
    u \notin UserIds \/ (Users[u].role # "admin" /\ ~hasModule(u, "selfie-upload"))

\* an update that replaces the whole document by its selfie and identity
withSelfie_DropsFields(id, file) ==
    [records EXCEPT ![id].selfie = file, ![id].dynamicFields = <<>>]

\* AadhaarVerification.findByIdAndUpdate(id, { $set: { selfie } })
withSelfie(id, file) == [records EXCEPT ![id].selfie = file]

\* POST /records/:id/selfie
UploadSelfie(r) ==
    /\ r.handler = "selfie"
    /\ r.userId \in UserIds
    /\ IF r.file = NoSelfie THEN Reply(r, 400, "No selfie file provided", <<>>)
       ELSE IF r.id = BadId THEN Reply(r, 500, "CastError", <<>>)
       ELSE IF ~recordExists(r.id)
            THEN Reply(r, 404, "Verification record not found", <<>>)
       ELSE IF ~isOwner(records[r.id], r.userId)
            THEN Reply(r, 403, "Not authorized to upload selfie for this record", <<>>)
       ELSE IF selfieModuleDenied(r.userId)
            THEN Reply(r, 403, "Selfie upload module is not enabled for your account", <<>>)
       ELSE ReplyStoring(r, withSelfie(r.id, r.file), 200,
                         "Selfie uploaded successfully", <<"update.ok", "audit.ok">>)

\* POST /records/:id/selfie-public
UploadSelfiePublic(r) ==
    /\ r.handler = "selfie-public"
    /\ IF r.file = NoSelfie THEN Reply(r, 400, "No selfie file provided", <<>>)
       ELSE IF r.id = BadId THEN Reply(r, 500, "CastError", <<>>)
       ELSE IF ~recordExists(r.id)
            THEN Reply(r, 404, "Verification record not found", <<>>)
       ELSE IF records[r.id].batchId = <<>>
               \/ ~startsWith(records[r.id].batchId, QrBatchPrefix)
            THEN Reply(r, 403,
                       "Public selfie upload only allowed for QR code verifications", <<>>)
       ELSE IF selfieModuleDenied(records[r.id].userId)
            THEN Reply(r, 403, "Selfie upload module is not enabled for this user", <<>>)
       ELSE ReplyStoring(r, withSelfie(r.id, r.file), 200,
                         "Selfie uploaded successfully", <<"update.ok">>)

\* GET /records/:id/selfie
GetSelfie(r) ==
    /\ r.handler = "get-selfie"
    /\ r.userId \in UserIds
    /\ IF r.id = BadId THEN Reply(r, 500, "CastError", <<>>)
       ELSE IF ~recordExists(r.id)
            THEN Reply(r, 404, "Verification record not found", <<>>)
       ELSE IF Users[r.userId].role # "admin" /\ ~isOwner(records[r.id], r.userId)
            THEN Reply(r, 403, "Not authorized to view this selfie", <<>>)
       ELSE IF records[r.id].selfie = NoSelfie
            THEN Reply(r, 404, "Selfie not found for this record", <<>>)
       ELSE /\ req' = r
            /\ res' = [Response(200, "image", <<>>) EXCEPT !.sent = records[r.id].selfie]
            /\ pre' = records
            /\ UNCHANGED <<records, fieldDefs, inflight>>

(* ------------------------------ listing -------------------------------- *)

\* a definition of the CustomField collection; createdAfter is the number of
\* records that were stored when the definition was created
FieldDef(fieldName, fieldLabel, defaultValue, appliesTo, isActive, createdAfter) ==
    [appliesTo |-> appliesTo, createdAfter |-> createdAfter,
     defaultValue |-> defaultValue, fieldLabel |-> fieldLabel,
     fieldName |-> fieldName, isActive |-> isActive]

\* a query for the definitions of every scope, active or not
activeFieldKeys_All == fieldDefs

\* CustomField.find({ appliesTo: { $in: ['verification', 'both'] }, isActive: true })
\* .sort({ displayOrder: 1, createdAt: 1 })  (lines 144-150); fieldDefs is kept
\* in that order
activeFieldKeys ==
    SelectSeq(fieldDefs,
              LAMBDA f : f.appliesTo \in {"verification", "both"} /\ f.isActive)

\* f.label === v, f.label a stored string and v a property of a definition
sameLabel(label, v) == v.t = "string" /\ v.s = label

\* getValue(label, fieldName) (lines 170-173): the value of the first stored
\* entry with that label or field name, '' when there is none
getValue(existing, label, fieldName) ==
    LET hits == {i \in 1..Len(existing) :
                    sameLabel(existing[i].label, label)
                    \/ sameLabel(existing[i].label, fieldName)}
    IN IF hits = {} THEN <<>>
       ELSE existing[CHOOSE i \in hits : \A j \in hits : i <= j].value

\* a resolution that returns the empty list when there are no definitions
resolveFields_EmptyWithoutKeys(keys, existing) ==
    [k \in 1..Len(keys) |->
        [label |-> IF Truthy(keys[k].fieldLabel) THEN keys[k].fieldLabel.s
                   ELSE keys[k].fieldName.s,
         value |-> LET v == getValue(existing, keys[k].fieldLabel, keys[k].fieldName)
                   IN IF v # <<>> THEN v
                      ELSE IF ~isNullish(keys[k].defaultValue)
                           THEN jsString(keys[k].defaultValue)
                      ELSE <<>>]]

\* decryptedRecord.dynamicFields of the listing (lines 169-181)
resolveFields(keys, existing) ==
    IF Len(keys) > 0
    THEN [k \in 1..Len(keys) |->
            [label |-> IF Truthy(keys[k].fieldLabel) THEN keys[k].fieldLabel.s
                       ELSE keys[k].fieldName.s,
             value |-> LET v == getValue(existing, keys[k].fieldLabel, keys[k].fieldName)
                       IN IF v # <<>> THEN v
                          ELSE IF ~isNullish(keys[k].defaultValue)
                               THEN jsString(keys[k].defaultValue)
                          ELSE <<>>]]
    ELSE IF Len(existing) = 0 THEN <<>>
    ELSE existing

\* tempRecord.decryptData(): the document with its sensitive fields in clear;
\* everything else, the dynamic fields and the selfie included, as stored
decryptData(id) ==
    [dynamicFields |-> records[id].dynamicFields, form |-> "decrypted", id |-> id,
     selfieData |-> records[id].selfie, status |-> records[id].status,
     userId |-> records[id].userId]

\* the lean document as the query returned it
rawDocument(id) == [decryptData(id) EXCEPT !.form = "raw"]

\* one element of decryptedRecords (lines 153-189): the decrypted record with
\* its dynamicFields resolved, or the raw record when decryption threw
listItem(id, decrypts, keys) ==
    IF decrypts
    THEN [decryptData(id) EXCEPT
             !.dynamicFields = resolveFields(keys, records[id].dynamicFields)]
    ELSE rawDocument(id)

\* a strip that is applied to the decrypted records only
stripSelfieData_DecryptedOnly(item) ==
    IF item.form = "decrypted" THEN [item EXCEPT !.selfieData = NoSelfie] ELSE item

\* if (r.selfie && r.selfie.data) delete r.selfie.data (lines 192-194)
stripSelfieData(item) == [item EXCEPT !.selfieData = NoSelfie]

\* the value of a string of digits
RECURSIVE digitsValue(_)
digitsValue(s) ==
    IF s = <<>> THEN 0
    ELSE 10 * digitsValue(SubSeq(s, 1, Len(s) - 1))
         + (CHOOSE n \in 0..9 : <<"0", "1", "2", "3", "4", "5", "6", "7", "8", "9">>[n + 1] = s[Len(s)])

\* the longest prefix of s made of digits
RECURSIVE digitPrefix(_)
digitPrefix(s) ==
    IF s # <<>> /\ Head(s) \in Digits THEN <<Head(s)>> \o digitPrefix(Tail(s)) ELSE <<>>

\* parseInt(v) || dflt (lines 64-65): NaN and 0 give the default
parseIntOr(v, dflt) ==
    LET str == IF v.t = "undefined" THEN <<>> ELSE trimStart(jsString(v))
        negative == str # <<>> /\ Head(str) = "-"
        digits == digitPrefix(IF negative THEN Tail(str) ELSE str)
        n == IF negative THEN 0 - digitsValue(digits) ELSE digitsValue(digits)
    IN IF digits = <<>> \/ n = 0 THEN dflt ELSE n

DefaultLimit == 10

\* new RegExp(search, 'i') throws a SyntaxError on an unbalanced parenthesis
isRegExp(str) ==
    Cardinality({i \in 1..Len(str) : str[i] = "("})
        = Cardinality({i \in 1..Len(str) : str[i] = ")"})

\* s has the literal pattern p somewhere
hasSubstring(s, p) ==
    \E a \in 0..Len(s) : a + Len(p) <= Len(s) /\ SubSeq(s, a + 1, a + Len(p)) = p

\* the characters of a stored status
statusText(status) ==
    CASE status = "verified" -> <<"v", "e", "r", "i", "f", "i", "e", "d">>
      [] status = "rejected" -> <<"r", "e", "j", "e", "c", "t", "e", "d">>
      [] status = "invalid" -> <<"i", "n", "v", "a", "l", "i", "d">>
      [] OTHER -> <<"p", "e", "n", "d", "i", "n", "g">>

\* a search query that drops the owner when a search term is given
matchesQuery_SearchDropsOwner(id, userId, q, dated) ==
    /\ (~Truthy(q.search) => records[id].userId = userId)
    /\ (Truthy(q.search) => hasSubstring(records[id].aadhaarNumber, jsString(q.search)))

\* the document matches searchQuery (lines 75-119): the caller's userId, and
\* the $or of the search term, the status filter and the dateOfBirth range when
\* the parameter is given.  dated is the set of stored records whose
\* dateOfBirth the database finds in the range.
matchesQuery(id, userId, q, dated) ==
    /\ records[id].userId = userId
    /\ (Truthy(q.search) => hasSubstring(records[id].aadhaarNumber, jsString(q.search)))
    /\ (Truthy(q.status) =>
           IF q.status.t = "object" THEN statusText(records[id].status) # q.status.s
           ELSE jsString(q.status) = statusText(records[id].status))
    /\ ((Truthy(q.dateFrom) \/ Truthy(q.dateTo)) => id \in dated)

\* the sort key of a record (lines 126-127): createdAt follows the ids
sortKey(id, q) ==
    LET by == IF Truthy(q.sortBy) THEN jsString(q.sortBy)
              ELSE <<"c", "r", "e", "a", "t", "e", "d", "A", "t">>
        rank == IF by = <<"s", "t", "a", "t", "u", "s">>
                THEN CASE records[id].status = "invalid" -> 1
                       [] records[id].status = "rejected" -> 2
                       [] OTHER -> 3
                ELSE 0
        key == rank * (Len(records) + 1) + id
    IN IF Truthy(q.sortOrder) /\ jsString(q.sortOrder) = <<"a", "s", "c">>
       THEN key ELSE 0 - key

\* the ids of the set, by ascending sort key
RECURSIVE sorted(_, _)
sorted(ids, q) ==
    IF ids = {} THEN <<>>
    ELSE LET first == CHOOSE i \in ids : \A j \in ids : sortKey(i, q) <= sortKey(j, q)
         IN <<first>> \o sorted(ids \ {first}, q)

\* .skip(skip).limit(limit) (lines 130-134); a negative limit counts as its
\* absolute value
pageOf(ids, skip, limit) ==
    LET n == IF limit < 0 THEN 0 - limit ELSE limit
        last == IF skip + n < Len(ids) THEN skip + n ELSE Len(ids)
    IN SubSeq(ids, skip + 1, last)

\* GET /records.  The query fails (500) when the search term is no regular
\* expression or the skip is negative, or when the database throws.
ListRecords(r) ==
    /\ r.handler = "records"
    /\ r.userId \in UserIds
    /\ LET page == parseIntOr(r.query.page, 1)
           limit == parseIntOr(r.query.limit, DefaultLimit)
           skip == (page - 1) * limit
       IN IF (Truthy(r.query.search) /\ ~isRegExp(jsString(r.query.search))) \/ skip < 0
          THEN Reply(r, 500, "Failed to fetch records", <<>>)
          ELSE \/ Reply(r, 500, "Failed to fetch records", <<"find.throw">>)
               \/ \E dated \in SUBSET (1..Len(records)) :
                  \E failing \in SUBSET (1..Len(records)) :
                     LET found == {id \in 1..Len(records) :
                                      matchesQuery(id, r.userId, r.query, dated)}
                         ids == pageOf(sorted(found, r.query), skip, limit)
                     IN /\ req' = r
                        /\ res' = [Response(200, "records",
                                            <<"find.ok">> \o
                                            [k \in 1..Len(ids) |->
                                                IF ids[k] \in failing
                                                THEN "decrypt.throw" ELSE "decrypt.ok"])
                                   EXCEPT
                                      !.data = [k \in 1..Len(ids) |->
                                                   stripSelfieData(
                                                       listItem(ids[k], ids[k] \notin failing,
                                                                activeFieldKeys))],
                                      !.total = Cardinality(found)]
                        /\ pre' = records
                        /\ UNCHANGED <<records, fieldDefs, inflight>>

\* GET /dynamic-field-keys
DynamicFieldKeys(r) ==
    /\ r.handler = "dynamic-field-keys"
    /\ r.userId \in UserIds
    /\ Reply(r, 200, "dynamic-field-keys", <<>>)

(* ------------------------------ requests ------------------------------- *)



\* a request of an authenticated user on /records or /dynamic-field-keys
PlainRequest(handler, userId) ==
    Request(handler, userId, "q0", BadId, Undefined, Undefined, Undefined, Undefined,
            Array(<<>>), NoSelfie)

\* a request on /records/:id...
RecordRequest(handler, userId, id, dynamicFields, file) ==
    Request(handler, userId, "q0", id, Undefined, Undefined, Undefined, Undefined,
            dynamicFields, file)

\* before the first request
NoRequest == PlainRequest("none", NoUser)

\* the PATCH requests being handled step by step: none
Patchers == {1, 2}
NoPatches == [p \in Patchers |->
    [doc |-> <<>>, order |-> 0, pc |-> "idle", req |-> NoRequest]]

\* the ids a request may name: no ObjectId, the stored records, one never stored
RequestIds == {BadId} \cup 1..(MaxRecords + 1)

ValidAadhaar == Str(Rep("1", AadhaarLen))
ValidOtp == Str(Rep("1", OtpLen))
SomeTransactionId == Str(<<"t">>)
NoFields == Array(<<>>)
OneField == Array(<<Entry(Str(<<" ", "a">>), Str(<<"x">>))>>)
Images == {"img1"}

AadhaarBasic == {Undefined, ValidAadhaar, Str(Rep("1", AadhaarLen - 1))}
OtpBasic == {ValidOtp, Str(Rep("1", OtpLen - 1))}
ConsentBasic == {JsTrue, Undefined}

(* ----------------------------- the service ----------------------------- *)

Init ==
    /\ records = <<>>
    /\ pre = <<>>
    /\ req = NoRequest
    /\ res = Response(0, "none", <<>>)
    /\ fieldDefs = <<>>
    /\ inflight = NoPatches

\* the requests the clients of Spec send
VerifySingleRequests ==
    {Request("verify-single", u, "q0", BadId, a, Undefined, Undefined, c,
             NoFields, NoSelfie) :
        u \in UserIds, a \in AadhaarBasic, c \in ConsentBasic}
VerifyOtpRequests ==
    {Request("verify-otp", u, "q0", BadId, a, o, SomeTransactionId, Undefined,
             NoFields, NoSelfie) :
        u \in UserIds, a \in AadhaarBasic, o \in OtpBasic}
VerifyQrRequests ==
    {Request("verify-qr", NoUser, q, BadId, a, Undefined, Undefined, c,
             NoFields, NoSelfie) :
        q \in QrCodes, a \in AadhaarBasic, c \in ConsentBasic}
VerifyOtpQrRequests ==
    {Request("verify-otp-qr", NoUser, q, BadId, a, o, SomeTransactionId, Undefined,
             NoFields, NoSelfie) :
        q \in QrCodes, a \in AadhaarBasic, o \in OtpBasic}
PatchRequests ==
    {RecordRequest("patch", u, id, d, NoSelfie) :
        u \in UserIds, id \in RequestIds, d \in {NoFields, OneField, NotAnArray}}
OtherMethodRequests ==
    {RecordRequest("records-id-other", u, id, NoFields, NoSelfie) :
        u \in {"u1", NoUser}, id \in RequestIds}
SelfieRequests ==
    {RecordRequest("selfie", u, id, NoFields, f) :
        u \in UserIds, id \in RequestIds, f \in Images \cup {NoSelfie}}
SelfiePublicRequests ==
    {RecordRequest("selfie-public", NoUser, id, NoFields, f) :
        id \in RequestIds, f \in Images \cup {NoSelfie}}
GetSelfieRequests ==
    {RecordRequest("get-selfie", u, id, NoFields, NoSelfie) :
        u \in UserIds, id \in RequestIds}
ListRequests == {PlainRequest("records", u) : u \in UserIds}
KeysRequests == {PlainRequest("dynamic-field-keys", u) : u \in UserIds}

Next ==
    \/ \E r \in VerifySingleRequests : VerifySingle(r)
    \/ \E r \in VerifyOtpRequests : VerifyOtp(r)
    \/ \E r \in VerifyQrRequests : VerifyQr(r)
    \/ \E r \in VerifyOtpQrRequests : VerifyOtpQr(r)
    \/ \E r \in PatchRequests : PatchRecord(r)
    \/ \E r \in OtherMethodRequests : RecordMethodNotAllowed(r)
    \/ \E r \in SelfieRequests : UploadSelfie(r)
    \/ \E r \in SelfiePublicRequests : UploadSelfiePublic(r)
    \/ \E r \in GetSelfieRequests : GetSelfie(r)
    \/ \E r \in ListRequests : ListRecords(r)
    \/ \E r \in KeysRequests : DynamicFieldKeys(r)

Spec == Init /\ [][Next]_vars

(* ------------------- the OTP handlers, input by input ------------------ *)

Spaced == Rep("1", 4) \o <<" ">> \o Rep("1", 4) \o <<" ">> \o Rep("1", 4)

\* aadhaarNumber values of a JSON body
AadhaarInputs ==
    {Undefined, Null, Str(<<>>), Str(<<" ", " ">>),
     ValidAadhaar, Str(Spaced), Str(<<"\t">> \o Rep("1", AadhaarLen) \o <<" ">>),
     Str(Rep("1", AadhaarLen - 1)), Str(Rep("1", AadhaarLen + 1)),
     Str(Rep("1", AadhaarLen - 1) \o <<"a">>),
     Str(Rep("1", AadhaarLen) \o <<"a">>),
     Num(Rep("1", AadhaarLen)), Num(Rep("1", AadhaarLen - 1)), Num(<<"0">>)}

\* otp values of a JSON body
OtpInputs ==
    {Undefined, Str(<<>>), ValidOtp, Str(Rep("1", OtpLen - 1)),
     Str(Rep("1", OtpLen + 1)), Str(Rep("1", OtpLen - 1) \o <<"a">>),
     Str(<<" ">> \o Rep("1", OtpLen)), Str(Rep("1", OtpLen) \o <<" ">>),
     Num(Rep("1", OtpLen)), Num(Rep("1", OtpLen - 1)), JsTrue}

ConsentInputs == {Undefined, JsFalse, JsTrue}
TransactionIdInputs == {Undefined, SomeTransactionId}

OtpRequests ==
    {Request("verify-single", u, "q0", BadId, a, Undefined, Undefined, c,
             NoFields, NoSelfie) :
        u \in UserIds, a \in AadhaarInputs, c \in ConsentInputs}
    \cup
    {Request("verify-qr", NoUser, q, BadId, a, Undefined, Undefined, c,
             NoFields, NoSelfie) :
        q \in QrCodes, a \in AadhaarInputs, c \in ConsentInputs}
    \cup
    {Request("verify-otp", u, "q0", BadId, a, o, t, Undefined, NoFields, NoSelfie) :
        u \in UserIds, a \in AadhaarInputs, o \in OtpInputs, t \in TransactionIdInputs}
    \cup
    {Request("verify-otp-qr", NoUser, q, BadId, a, o, t, Undefined, NoFields, NoSelfie) :
        q \in QrCodes, a \in AadhaarInputs, o \in OtpInputs, t \in TransactionIdInputs}

\* one client sends one request of OtpRequests, again and again
InitOtp ==
    /\ records = <<>>
    /\ pre = <<>>
    /\ req \in OtpRequests
    /\ res = Response(0, "none", <<>>)
    /\ fieldDefs = <<>>
    /\ inflight = NoPatches

NextOtp ==
    \/ VerifySingle(req)
    \/ VerifyOtp(req)
    \/ VerifyQr(req)
    \/ VerifyOtpQr(req)

SpecOtp == InitOtp /\ [][NextOtp]_vars

(* ---------------------- PATCH, body by body ---------------------------- *)

\* entries of a dynamicFields body: two that need trimming or a conversion,
\* their normal forms, and three that normalization drops
FieldEntries ==
    {Entry(Str(<<" ", "a", " ">>), Str(<<" ", "x", "\t">>)),
     Entry(Str(<<"a">>), Str(<<"x">>)),
     Entry(Num(<<"7">>), Undefined),
     Entry(Str(<<"7">>), Str(<<>>)),
     Entry(Null, Str(<<"v">>)),
     Entry(Str(<<" ">>), Str(<<"v">>)),
     NotAnObject}

PatchBodies ==
    {NotAnArray, Array(<<>>)}
    \cup {Array(<<e>>) : e \in FieldEntries}
    \cup {Array(<<e, f>>) : e \in FieldEntries, f \in FieldEntries}

\* the owner u1 creates records, with and without dynamic fields ...
PatchSetupRequests ==
    {Request("verify-otp", "u1", "q0", BadId, ValidAadhaar, ValidOtp,
             SomeTransactionId, Undefined, d, NoSelfie) :
        d \in {NoFields, Array(<<Entry(Str(<<" ", "a", " ">>), Str(<<" ", "x", "\t">>))>>)}}

\* ... and patches them
PatchBodyRequests ==
    {RecordRequest("patch", "u1", id, d, NoSelfie) :
        id \in 1..MaxRecords, d \in PatchBodies}

NextPatch ==
    \/ \E r \in PatchSetupRequests : VerifyOtp(r)
    \/ \E r \in PatchBodyRequests : PatchRecord(r)

SpecPatch == Init /\ [][NextPatch]_vars

(* --------------- listing, registry by registry and list by list -------- *)

\* An administrator creates a definition (a request to the custom-field routes,
\* outside this router): it takes its place in the display order.
AddCustomField(def) ==
    /\ Len(fieldDefs) < MaxDefs
    /\ \A i \in 1..Len(fieldDefs) : fieldDefs[i].fieldName # def.fieldName
    /\ \E at \in 0..Len(fieldDefs) :
          fieldDefs' = SubSeq(fieldDefs, 1, at)
                       \o <<[def EXCEPT !.createdAfter = Len(records)]>>
                       \o SubSeq(fieldDefs, at + 1, Len(fieldDefs))
    /\ req' = PlainRequest("custom-fields", "u3")
    /\ res' = Response(201, "Custom field created", <<>>)
    /\ pre' = records
    /\ UNCHANGED <<records, inflight>>

\* definitions with and without a label and a default, one of another scope
\* and one that is not active
NewFieldDefs ==
    {FieldDef(Str(<<"a">>), Str(<<"L">>), Str(<<"d">>), "verification", TRUE, 0),
     FieldDef(Str(<<"b">>), Undefined, Null, "both", TRUE, 0),
     FieldDef(Str(<<"c">>), Str(<<"a">>), Num(<<"5">>), "both", TRUE, 0),
     FieldDef(Str(<<"e">>), Str(<<"L">>), Str(<<"d">>), "user", TRUE, 0),
     FieldDef(Str(<<"f">>), Str(<<"a">>), Str(<<"d">>), "verification", FALSE, 0)}

\* the owner u1 creates records, with and without a dynamic field ...
ListSetupRequests ==
    {Request("verify-otp", "u1", "q0", BadId, ValidAadhaar, ValidOtp,
             SomeTransactionId, Undefined, d, NoSelfie) :
        d \in {NoFields, Array(<<Entry(Str(<<"L">>), Str(<<"y">>))>>)}}

\* ... gives them lists that match the definitions by label, by field name,
\* twice, with an empty value, or not at all ...
ListPatchRequests ==
    {RecordRequest("patch", "u1", id, d, NoSelfie) :
        id \in 1..MaxRecords,
        d \in {Array(<<Entry(Str(<<"a">>), Str(<<"x">>))>>),
               Array(<<Entry(Str(<<"a">>), Undefined)>>),
               Array(<<Entry(Str(<<"L">>), Str(<<"y">>)), Entry(Str(<<"a">>), Str(<<"x">>))>>),
               Array(<<Entry(Str(<<"z">>), Str(<<"w">>))>>)}}

\* ... attaches selfies and lists the records
ListSelfieRequests ==
    {RecordRequest("selfie", "u1", id, NoFields, f) : id \in 1..MaxRecords, f \in Images}
ListPlainRequests == {PlainRequest("records", u) : u \in {"u1", "u2"}}

NextList ==
    \/ \E r \in ListSetupRequests : VerifyOtp(r)
    \/ \E r \in ListPatchRequests : PatchRecord(r)
    \/ \E r \in ListSelfieRequests : UploadSelfie(r)
    \/ \E def \in NewFieldDefs : AddCustomField(def)
    \/ \E r \in ListPlainRequests : ListRecords(r)

SpecList == Init /\ [][NextList]_vars

(* -------------------- PATCH requests that interleave -------------------- *)

\* a save that sets the list position by position, so that entries of the
\* stored list beyond the new length survive
saveModified_Positional(stored, doc) ==
    [stored EXCEPT !.dynamicFields =
        [i \in 1..(IF Len(@) > Len(doc.dynamicFields) THEN Len(@) ELSE Len(doc.dynamicFields)) |->
            IF i <= Len(doc.dynamicFields) THEN doc.dynamicFields[i] ELSE @[i]]]

\* record.save (line 276): the document loaded at line 250 has one modified
\* path, dynamicFields, and the save sets that path on the stored record
saveModified(stored, doc) ==
    [stored EXCEPT !.dynamicFields = doc.dynamicFields]

\* PATCH /records/:id up to its await of findById (lines 240-263): the request
\* is answered at once when the id, the record or the owner is wrong, and holds
\* the document it loaded otherwise
PatchBegin(p, r) ==
    /\ inflight[p].pc = "idle"
    /\ r.handler = "patch"
    /\ r.userId \in UserIds
    /\ IF r.id = BadId THEN Reply(r, 400, "Invalid record ID", <<>>)
       ELSE IF ~recordExists(r.id)
            THEN Reply(r, 404, "Verification record not found", <<>>)
       ELSE IF ~isOwner(records[r.id], r.userId)
            THEN Reply(r, 403, "Not authorized to update this record", <<>>)
       ELSE /\ inflight' = [inflight EXCEPT
                               ![p] = [doc |-> records[r.id], order |-> 0,
                                       pc |-> "loaded", req |-> r]]
            /\ UNCHANGED <<records, pre, req, res, fieldDefs>>

\* the rest of the handler (lines 265-291): the list of the loaded document is
\* replaced and the document saved; a save that throws is answered 500. order
\* is the rank of the save among the saves that wrote.
PatchSave(p) ==
    /\ inflight[p].pc = "loaded"
    /\ LET r == inflight[p].req
           doc == [inflight[p].doc EXCEPT
                      !.dynamicFields = patchedFields(@, r.dynamicFields)]
           written == {q \in Patchers : inflight[q].order > 0}
       IN /\ req' = r
          /\ pre' = records
          /\ UNCHANGED fieldDefs
          /\ \/ /\ records' = [records EXCEPT ![r.id] = saveModified(@, doc)]
                /\ res' = Response(200, "Dynamic fields updated", <<"save.ok">>)
                /\ inflight' = [inflight EXCEPT
                                   ![p].pc = "done",
                                   ![p].order = Cardinality(written) + 1]
             \/ /\ res' = Response(500, "Failed to update dynamic fields", <<"save.throw">>)
                /\ inflight' = [inflight EXCEPT ![p].pc = "done"]
                /\ UNCHANGED records

\* the records the requests meet, with and without a stored list
ConcSetupRequests == ListSetupRequests

\* the bodies of the interleaving requests: lists of different lengths, an
\* entry that needs trimming, one without value, and a body that is no array
ConcBodies ==
    {Array(<<Entry(Str(<<"a">>), Str(<<"x">>))>>),
     Array(<<Entry(Str(<<"b">>), Str(<<"1">>)), Entry(Str(<<" ", "c">>), Undefined)>>),
     Array(<<Entry(Str(<<"a">>), Str(<<"2">>)), Entry(Str(<<"b">>), Str(<<"2">>)),
             Entry(Str(<<"c">>), Str(<<"2">>))>>),
     NotAnArray}
ConcPatchRequests ==
    {RecordRequest("patch", u, id, d, NoSelfie) :
        u \in {"u1", "u2"}, id \in 1..MaxRecords, d \in ConcBodies}

NextConc ==
    \/ \E r \in ConcSetupRequests : VerifyOtp(r)
    \/ \E p \in Patchers : \E r \in ConcPatchRequests : PatchBegin(p, r)
    \/ \E p \in Patchers : PatchSave(p)

SpecConc == Init /\ [][NextConc]_vars

(* -------------------- listing, query by query -------------------------- *)

\* the query parameters of GET /records: absent, plain, and hostile (a page
\* before the first, a search term that is no regular expression, a status
\* given as the operator object { $ne: 'rejected' })
PageInputs == {Undefined, Str(<<"2">>), Str(<<"-", "1">>)}
LimitInputs == {Undefined, Str(<<"1">>)}
SearchInputs == {Undefined, Str(<<"1">>), Str(<<"9">>), Str(<<"(">>)}
StatusInputs == {Undefined, Str(statusText("verified")), NotEqual(statusText("rejected"))}
DateInputs == {Undefined, Str(<<"2", "0", "0", "0">>)}
SortByInputs == {Undefined, Str(<<"s", "t", "a", "t", "u", "s">>)}
SortOrderInputs == {Undefined, Str(<<"a", "s", "c">>)}

QueryRequests ==
    {[PlainRequest("records", u) EXCEPT
         !.query = Query(p, l, s, st, df, dt, sb, so)] :
        u \in {"u1", "u2"}, p \in PageInputs, l \in LimitInputs, s \in SearchInputs,
        st \in StatusInputs, df \in DateInputs, dt \in DateInputs,
        sb \in SortByInputs, so \in SortOrderInputs}

\* the stores the listing runs on: up to MaxRecords records, each as verify-otp
\* creates it for u1 or u2
QueryStoreRecords ==
    {otpRecord(Request("verify-otp", u, "q0", BadId, ValidAadhaar, ValidOtp,
                       SomeTransactionId, Undefined, NoFields, NoSelfie), resp) :
        u \in {"u1", "u2"}, resp \in VerifyResponses}
QueryStores ==
    UNION {[1..n -> QueryStoreRecords] : n \in 0..MaxRecords}

InitQuery ==
    /\ records \in QueryStores
    /\ pre = records
    /\ req \in QueryRequests
    /\ res = Response(0, "none", <<>>)
    /\ fieldDefs = <<>>
    /\ inflight = NoPatches

NextQuery == ListRecords(req)

SpecQuery == InitQuery /\ [][NextQuery]_vars

(* ============================== properties ============================= *)

\* the handler made the call c (with that outcome) while handling req
Made(c) == \E i \in DOMAIN res.calls : res.calls[i] = c
ExternalCalled ==
    Made("sendOtp.ok") \/ Made("sendOtp.throw") \/ Made("verifyOtp.ok") \/ Made("verifyOtp.throw")

\* req has been handled and res is its response
Answered == res.status # 0

\* v is n decimal digits once its whitespace is left out
IsDigitsIgnoringSpace(v, n) ==
    /\ v.t \in {"string", "number"}
    /\ Cardinality({i \in 1..Len(v.s) : v.s[i] \notin Whitespace}) = n
    /\ \A i \in 1..Len(v.s) : v.s[i] \in Whitespace \cup Digits

\* v is exactly n decimal digits
IsDigits(v, n) ==
    /\ v.t \in {"string", "number"}
    /\ Len(v.s) = n
    /\ \A i \in 1..Len(v.s) : v.s[i] \in Digits

\* a field the body leaves out or leaves empty
IsMissing(v) == v.t \in {"undefined", "null"} \/ (v.t = "string" /\ v.s = <<>>)

\* the last request added exactly one record, and touched no other
OneRecordCreated ==
    /\ Len(records) = Len(pre) + 1
    /\ SubSeq(records, 1, Len(pre)) = pre

\* the QR code of the request names an active user with the qr-code module
QrAccepted ==
    \E u \in UserIds :
        /\ Users[u].qrCode.code = req.qrCode
        /\ Users[u].qrCode.isActive
        /\ "qr-code" \in Users[u].moduleAccess

(* ---- C1 ---- *)

C1_WellFormedVerifyOtp ==
    /\ req.handler = "verify-otp"
    /\ req.aadhaarNumber.t = "string"
    /\ IsDigitsIgnoringSpace(req.aadhaarNumber, AadhaarLen)
    /\ req.otp.t = "string" /\ IsDigits(req.otp, OtpLen)
    /\ ~IsMissing(req.transactionId)

\* C1 as stated: the send-OTP handlers never create a record, and every
\* well-formed POST /verify-otp whose external verify call returned has created
\* exactly one record, in status verified or rejected.
C1_Original ==
    /\ req.handler \in {"verify-single", "verify-qr"} => records = pre
    /\ (C1_WellFormedVerifyOtp /\ Made("verifyOtp.ok")) =>
          /\ OneRecordCreated
          /\ records[Len(records)].status \in {"verified", "rejected"}

\* C1 amended: the send-OTP handlers never create a record, and every well-formed
\* POST /verify-otp whose external verify call returned and whose record save
\* succeeded has created exactly one record, in status verified or rejected; when
\* the save fails the store is unchanged.
C1_SendNeverCreates_VerifyCreatesOne ==
    /\ req.handler \in {"verify-single", "verify-qr"} => records = pre
    /\ (C1_WellFormedVerifyOtp /\ Made("verifyOtp.ok") /\ Made("save.ok")) =>
          /\ OneRecordCreated
          /\ records[Len(records)].status \in {"verified", "rejected"}
    /\ (C1_WellFormedVerifyOtp /\ Made("save.throw")) => records = pre

C1_Witness ==
    /\ C1_WellFormedVerifyOtp
    /\ Made("verifyOtp.ok") /\ Made("save.ok")
    /\ OneRecordCreated
    /\ records[Len(records)].status = "rejected"

(* ---- C3 ---- *)

\* the request fails one of the validations of its handler
C3_ValidationFails ==
    \/ /\ req.handler \in {"verify-single", "verify-qr"}
       /\ \/ IsMissing(req.aadhaarNumber)
          \/ ~Truthy(req.consentAccepted)
          \/ ~IsDigitsIgnoringSpace(req.aadhaarNumber, AadhaarLen)
    \/ /\ req.handler \in {"verify-otp", "verify-otp-qr"}
       /\ \/ IsMissing(req.aadhaarNumber)
          \/ IsMissing(req.otp)
          \/ IsMissing(req.transactionId)
          \/ ~IsDigitsIgnoringSpace(req.aadhaarNumber, AadhaarLen)
          \/ ~IsDigits(req.otp, OtpLen)

\* C3: in the four OTP handlers a request that fails validation is answered 400,
\* the external client is not called and no record is created.  (Stated for the
\* requests that get as far as validation: on the two QR routes, those whose QR
\* code is accepted.)
C3_ValidationFailureIs400 ==
    (/\ Answered
     /\ C3_ValidationFails
     /\ req.handler \in {"verify-qr", "verify-otp-qr"} => QrAccepted) =>
        /\ res.status = 400
        /\ ~ExternalCalled
        /\ records = pre

(* ---- C4 ---- *)

\* C4: verify-single and verify-qr answer 400 unless aadhaarNumber, whitespace
\* removed, is exactly 12 decimal digits, and only such inputs reach the external
\* send-OTP call.  (On verify-qr, for the requests whose QR code is accepted.)
C4_AadhaarRejectedUnlessTwelveDigits ==
    (/\ Answered
     /\ req.handler \in {"verify-single", "verify-qr"}
     /\ req.handler = "verify-qr" => QrAccepted) =>
        /\ ~IsDigitsIgnoringSpace(req.aadhaarNumber, AadhaarLen) => res.status = 400
        /\ ExternalCalled => IsDigitsIgnoringSpace(req.aadhaarNumber, AadhaarLen)

(* ---- C5 ---- *)

\* C5: verify-otp and verify-otp-qr reach the external verify call only if otp is
\* exactly 6 decimal digits; every other otp value is answered 400.  (On
\* verify-otp-qr, for the requests whose QR code is accepted.)
C5_OtpRejectedUnlessSixDigits ==
    (/\ Answered
     /\ req.handler \in {"verify-otp", "verify-otp-qr"}
     /\ req.handler = "verify-otp-qr" => QrAccepted) =>
        /\ ExternalCalled => IsDigits(req.otp, OtpLen)
        /\ ~IsDigits(req.otp, OtpLen) => res.status = 400

(* ---- C2 ---- *)

\* the request names a record that was stored when it arrived
TargetExists == req.id \in 1..Len(pre)

\* an authenticated request on a record of another user
C2_NonOwnerRequest ==
    /\ req.handler \in {"patch", "selfie", "get-selfie"}
    /\ TargetExists
    /\ pre[req.id].userId # req.userId

\* C2 as stated: PATCH, selfie upload and selfie download on another user's
\* record are answered 403, change nothing and serve no selfie, whatever the
\* caller's role.  (Stated here for the uploads that carry a file.)
C2_Original ==
    (C2_NonOwnerRequest /\ (req.handler = "selfie" => req.file # NoSelfie)) =>
        /\ res.status = 403
        /\ records = pre
        /\ res.sent = NoSelfie

\* C2 amended: on another user's record, PATCH is answered 403; a selfie upload
\* is answered 403 when it carries a file and 400 when it carries none; a selfie
\* download is answered 403 with no selfie served unless the caller's role is
\* admin, who is served the stored selfie (404 when there is none).  The record is
\* unchanged in every case.
C2_NonOwnerDenied_ExceptAdminDownload ==
    C2_NonOwnerRequest =>
        /\ records = pre
        /\ req.handler = "patch" => (res.status = 403 /\ res.sent = NoSelfie)
        /\ req.handler = "selfie" =>
              /\ res.sent = NoSelfie
              /\ res.status = IF req.file = NoSelfie THEN 400 ELSE 403
        /\ (req.handler = "get-selfie" /\ Users[req.userId].role # "admin") =>
              (res.status = 403 /\ res.sent = NoSelfie)
        /\ (req.handler = "get-selfie" /\ Users[req.userId].role = "admin") =>
              /\ res.sent = pre[req.id].selfie
              /\ res.status = IF pre[req.id].selfie = NoSelfie THEN 404 ELSE 200

\* an admin downloads the selfie of another user's record
C2_Witness ==
    /\ C2_NonOwnerRequest
    /\ req.handler = "get-selfie"
    /\ Users[req.userId].role = "admin"
    /\ res.status = 200
    /\ res.sent # NoSelfie

(* ---- C6 ---- *)

\* C6: records are created only by the OTP-verify handlers, after the external
\* verify call returned; none is deleted; a stored record is changed only by
\* PATCH (its dynamicFields alone) and by the two selfie uploads (its selfie
\* alone); userId never changes; listing, dynamic-field-keys, send-OTP and
\* selfie download leave the store as it was.
C6_StoreChangesOnlyAsDeclared ==
    /\ Len(records) >= Len(pre)
    /\ Len(records) > Len(pre) =>
          /\ req.handler \in {"verify-otp", "verify-otp-qr"}
          /\ Made("verifyOtp.ok")
          /\ OneRecordCreated
    /\ \A i \in 1..Len(pre) :
          /\ i <= Len(records)
          /\ records[i].userId = pre[i].userId
          /\ records[i] # pre[i] =>
                \/ /\ req.handler = "patch"
                   /\ records[i] = [pre[i] EXCEPT !.dynamicFields = records[i].dynamicFields]
                \/ /\ req.handler \in {"selfie", "selfie-public"}
                   /\ records[i] = [pre[i] EXCEPT !.selfie = records[i].selfie]
    /\ req.handler \in {"records", "dynamic-field-keys", "verify-single", "verify-qr",
                        "get-selfie"} => records = pre

C6_Witness ==
    /\ req.handler = "selfie-public"
    /\ TargetExists
    /\ pre[req.id].dynamicFields # <<>>
    /\ records[req.id].selfie # pre[req.id].selfie

(* ---- C7 ---- *)

\* C7: every stored record has status verified, rejected or invalid, never
\* pending, and no request changes the status of a record it found stored.
C7_StatusTerminalAndWriteOnce ==
    /\ \A i \in 1..Len(records) : records[i].status \in {"verified", "rejected", "invalid"}
    /\ \A i \in 1..Len(pre) : i <= Len(records) /\ records[i].status = pre[i].status

C7_Witness ==
    /\ req.handler = "patch"
    /\ res.status = 200
    /\ TargetExists
    /\ records[req.id].status = "invalid"
    /\ records[req.id].dynamicFields # pre[req.id].dynamicFields

(* ---- C8 ---- *)

IsQrBatch(batchId) ==
    /\ Len(batchId) >= 3
    /\ batchId[1] = "q" /\ batchId[2] = "r" /\ batchId[3] = "-"

C8_PublicUploadOnOtherBatch ==
    /\ req.handler = "selfie-public"
    /\ TargetExists
    /\ ~IsQrBatch(pre[req.id].batchId)

\* C8: selfie-public stores a selfie only on a record whose batchId starts with
\* 'qr-'; on every other stored record the selfie is unchanged and an upload is
\* answered 403 (a request that carries no file is answered 400 before the record
\* is read).
C8_PublicUploadOnlyOnQrRecords ==
    /\ (req.handler = "selfie-public" /\ records # pre) =>
          (TargetExists /\ IsQrBatch(pre[req.id].batchId))
    /\ C8_PublicUploadOnOtherBatch =>
          /\ records = pre
          /\ res.status = IF req.file = NoSelfie THEN 400 ELSE 403

C8_Witness ==
    /\ C8_PublicUploadOnOtherBatch
    /\ req.file # NoSelfie
    /\ "selfie-upload" \in Users[pre[req.id].userId].moduleAccess
    /\ res.status = 403

(* ---- C9 ---- *)

C9_UploadRequest == req.handler \in {"selfie", "selfie-public"} /\ TargetExists

OwnerHasSelfieFlag == "selfie-upload" \in Users[pre[req.id].userId].moduleAccess
OwnerIsAdmin == Users[pre[req.id].userId].role = "admin"

\* C9 as stated: either upload endpoint writes a selfie only if the record's
\* owner has 'selfie-upload' in moduleAccess; otherwise the answer is 403 and the
\* selfie is unchanged.  (Stated here for the uploads that carry a file.)
C9_Original ==
    (C9_UploadRequest /\ req.file # NoSelfie) =>
        /\ records # pre => OwnerHasSelfieFlag
        /\ ~OwnerHasSelfieFlag => (res.status = 403 /\ records = pre)

\* C9 amended: either upload endpoint writes a selfie only if the record's owner
\* has 'selfie-upload' in moduleAccess or has the role admin; when the owner has
\* neither, the selfie is unchanged and the answer is 403 (400 when the request
\* carries no file).
C9_UploadNeedsFlagOrAdmin ==
    C9_UploadRequest =>
        /\ records # pre => (OwnerHasSelfieFlag \/ OwnerIsAdmin)
        /\ (~OwnerHasSelfieFlag /\ ~OwnerIsAdmin) =>
              /\ records = pre
              /\ res.status = IF req.file = NoSelfie THEN 400 ELSE 403

\* an admin without the flag has a selfie stored on a QR record
C9_Witness ==
    /\ C9_UploadRequest
    /\ req.handler = "selfie-public"
    /\ ~OwnerHasSelfieFlag /\ OwnerIsAdmin
    /\ records[req.id].selfie # pre[req.id].selfie

(* ---- C10 ---- *)

\* the stored list as a request body
AsBody(fields) ==
    [items |-> [i \in 1..Len(fields) |->
                   [label |-> Str(fields[i].label), obj |-> TRUE,
                    value |-> Str(fields[i].value)]],
     t |-> "array"]

NoOuterSpace(s) == s = <<>> \/ (s[1] \notin Whitespace /\ s[Len(s)] \notin Whitespace)

\* a list in normal form: no empty label, no whitespace around a label or value
IsNormalForm(fields) ==
    \A i \in 1..Len(fields) :
        /\ fields[i].label # <<>>
        /\ NoOuterSpace(fields[i].label)
        /\ NoOuterSpace(fields[i].value)

\* the step is a PATCH by the owner that was answered 200
PatchDone == req'.handler = "patch" /\ res'.status = 200

\* C10: the same PATCH issued twice in succession by the owner leaves the stored
\* list as the first one left it, and a PATCH whose body is the record's stored
\* list, in normal form, leaves that list as it is.
C10_PatchIdempotent ==
    [][PatchDone =>
          /\ (req.handler = "patch" /\ res.status = 200 /\ req' = req) =>
                records'[req'.id].dynamicFields = records[req'.id].dynamicFields
          /\ (/\ IsNormalForm(records[req'.id].dynamicFields)
              /\ req'.dynamicFields = AsBody(records[req'.id].dynamicFields)) =>
                records'[req'.id].dynamicFields = records[req'.id].dynamicFields]_vars

\* a PATCH whose body needs normalizing has left a non-empty list as it was
C10_Witness ==
    /\ req.handler = "patch"
    /\ res.status = 200
    /\ records[req.id].dynamicFields # <<>>
    /\ records[req.id].dynamicFields = pre[req.id].dynamicFields
    /\ req.dynamicFields # AsBody(records[req.id].dynamicFields)

(* ---- C11 ---- *)

\* t is s without its leading and trailing whitespace
IsTrimOf(t, s) ==
    /\ NoOuterSpace(t)
    /\ \E a \in 0..Len(s) : \E b \in 0..Len(s) :
          /\ a + Len(t) + b = Len(s)
          /\ \A i \in 1..a : s[i] \in Whitespace
          /\ \A i \in 1..Len(t) : t[i] = s[a + i]
          /\ \A i \in 1..b : s[a + Len(t) + i] \in Whitespace

\* the input entry is one the normalization drops: no object, no label, or a
\* label that is all whitespace
IsDroppedEntry(e) ==
    \/ ~e.obj
    \/ e.label.t \in {"undefined", "null"}
    \/ \A i \in 1..Len(jsString(e.label)) : jsString(e.label)[i] \in Whitespace

\* the stored entry f is the normal form of the input entry e
IsNormalFormOf(f, e) ==
    /\ IsTrimOf(f.label, jsString(e.label))
    /\ IF e.value.t \in {"undefined", "null"} THEN f.value = <<>>
       ELSE IsTrimOf(f.value, jsString(e.value))

\* the request is a PATCH by the owner that was answered 200
PatchAnswered == req.handler = "patch" /\ res.status = 200

\* C11: after a PATCH by the owner the stored list is the normalization of the
\* input: one entry for each input entry that is an object with a label that is
\* not null, undefined or blank, in the input's order, label and value as
\* trimmed strings (a missing value as ''), and nothing else, whatever was
\* stored before; an input that is no array stores the empty list.
C11_StoredListIsNormalizedInput ==
    PatchAnswered =>
        LET input == req.dynamicFields.items
            out == records[req.id].dynamicFields
            kept == {i \in 1..Len(input) : ~IsDroppedEntry(input[i])}
        IN IF req.dynamicFields.t # "array" THEN out = <<>>
           ELSE /\ Len(out) = Cardinality(kept)
                /\ \A i \in kept :
                      IsNormalFormOf(out[Cardinality({j \in kept : j <= i})], input[i])

\* a PATCH of two entries, one dropped and one trimmed, has replaced a stored
\* list none of whose entries is in the input
C11_Witness ==
    /\ PatchAnswered
    /\ Len(req.dynamicFields.items) = 2
    /\ Len(records[req.id].dynamicFields) = 1
    /\ req.dynamicFields # AsBody(records[req.id].dynamicFields)
    /\ pre[req.id].dynamicFields # <<>>
    /\ \A i \in 1..Len(pre[req.id].dynamicFields) :
          pre[req.id].dynamicFields[i] # records[req.id].dynamicFields[1]

(* ---- C15 ---- *)

\* C15: a request to /records/:id with a method other than PATCH is answered 405
\* with the header Allow: PATCH and leaves the store unchanged, for every id,
\* stored or not, and with or without an authenticated caller.
C15_OtherMethodIs405AllowPatch ==
    req.handler = "records-id-other" =>
        /\ res.status = 405
        /\ res.allow = "PATCH"
        /\ records = pre

\* an unauthenticated request on the id of a stored record got the 405
C15_Witness ==
    /\ req.handler = "records-id-other"
    /\ req.userId = NoUser
    /\ recordExists(req.id)
    /\ records[req.id].dynamicFields # <<>>
    /\ res.status = 405

(* ---- C17 ---- *)

\* the request was handled by one of the two OTP-verify handlers, and the
\* external verify call returned
VerifyReturned ==
    /\ req.handler \in {"verify-otp", "verify-otp-qr"}
    /\ res.upstream # NoUpstream

\* what the other flow makes of the same external response
VerifiedInOtherFlow ==
    IF req.handler = "verify-otp"
    THEN res.upstream.data # "none" /\ qrStatus(res.upstream) = "verified"
    ELSE otpStatus(res.upstream) = "verified"

\* C17: whenever the external verify call returned (and the save did not fail),
\* either flow has persisted one record, and that record is verified exactly
\* when the other flow, given the same external response, persists a verified
\* record.
C17_FlowsAgreeOnVerified ==
    (VerifyReturned /\ ~Made("save.throw")) =>
        /\ OneRecordCreated
        /\ (records[Len(records)].status = "verified") <=> VerifiedInOtherFlow

(* ---- C19 ---- *)

\* the number of calls of the external verify operation the handler made
VerifyCalls ==
    Cardinality({i \in 1..Len(res.calls) :
                    res.calls[i] \in {"verifyOtp.ok", "verifyOtp.throw"}})

\* C19: when verify-otp or verify-otp-qr answers 500, the store is as it was
\* before the request and the external verify operation was called at most once.
C19_FailureLeavesStoreUnchanged ==
    (req.handler \in {"verify-otp", "verify-otp-qr"} /\ res.status = 500) =>
        /\ records = pre
        /\ VerifyCalls <= 1

(* ---- C12 ---- *)

\* GET /records was answered with a page
ListDone == req.handler = "records" /\ res.status = 200

\* the positions in the registry of the definitions a listing applies: active,
\* of scope verification or both
ActiveDefs ==
    {i \in 1..Len(fieldDefs) :
        fieldDefs[i].isActive /\ fieldDefs[i].appliesTo \in {"verification", "both"}}

\* the position in the registry of the k-th of them
NthActiveDef(k) ==
    CHOOSE i \in ActiveDefs : Cardinality({j \in ActiveDefs : j <= i}) = k

\* the stored entries of the record whose label is the definition's fieldLabel
\* or fieldName
MatchingEntries(id, def) ==
    {i \in 1..Len(records[id].dynamicFields) :
        \/ (def.fieldLabel.t = "string"
            /\ records[id].dynamicFields[i].label = def.fieldLabel.s)
        \/ records[id].dynamicFields[i].label = def.fieldName.s}

\* the definition's defaultValue as a string, '' when it has none
DefaultText(def) ==
    IF def.defaultValue.t \in {"undefined", "null"} THEN <<>>
    ELSE jsString(def.defaultValue)

\* C12: with at least one active definition, the dynamicFields of a listed record
\* (one the listing decrypted) has one entry per active definition, in the
\* definitions' order, whose value is the stored value of an entry whose label
\* is the definition's fieldLabel or fieldName when there is such an entry,
\* otherwise the definition's defaultValue as a string, otherwise ''.
C12_ListedFieldsFollowDefinitions ==
    (ListDone /\ ActiveDefs # {}) =>
        \A n \in 1..Len(res.data) :
            res.data[n].form = "decrypted" =>
                /\ Len(res.data[n].dynamicFields) = Cardinality(ActiveDefs)
                /\ \A k \in 1..Cardinality(ActiveDefs) :
                      LET def == fieldDefs[NthActiveDef(k)]
                          hits == MatchingEntries(res.data[n].id, def)
                          value == res.data[n].dynamicFields[k].value
                      IN IF hits # {}
                         THEN \E i \in hits :
                                 value = records[res.data[n].id].dynamicFields[i].value
                         ELSE value = DefaultText(def)

(* ---- C13 ---- *)

\* C13 as stated: with no active definition every listed record has
\* dynamicFields = [], whatever the record has stored.
C13_Original ==
    (ListDone /\ ActiveDefs = {}) =>
        \A n \in 1..Len(res.data) : res.data[n].dynamicFields = <<>>

\* C13 amended: with no active definition every listed record has its stored
\* dynamicFields list, which is [] only when the record has none stored.
C13_ListedFieldsAreStoredWithoutDefinitions ==
    (ListDone /\ ActiveDefs = {}) =>
        \A n \in 1..Len(res.data) :
            res.data[n].dynamicFields = records[res.data[n].id].dynamicFields

\* a registry with definitions, none of them active for verifications, and a
\* decrypted record listed with the list it has stored
C13_Witness ==
    /\ ListDone
    /\ ActiveDefs = {}
    /\ fieldDefs # <<>>
    /\ \E n \in 1..Len(res.data) :
          /\ res.data[n].form = "decrypted"
          /\ res.data[n].dynamicFields # <<>>

(* ---- C14 ---- *)

\* the label the listing gives the entry of a definition
LabelOf(def) ==
    IF def.fieldLabel.t = "string" /\ def.fieldLabel.s # <<>> THEN def.fieldLabel.s
    ELSE def.fieldName.s

\* C14 as stated: a listing has, on every returned record created before an
\* active definition was, an entry for that definition with its default or
\* empty value, and leaves the store as it was.
C14_Original ==
    ListDone =>
        /\ records = pre
        /\ \A n \in 1..Len(res.data) : \A k \in 1..Cardinality(ActiveDefs) :
              LET def == fieldDefs[NthActiveDef(k)]
              IN res.data[n].id <= def.createdAfter =>
                    /\ Len(res.data[n].dynamicFields) >= k
                    /\ res.data[n].dynamicFields[k].label = LabelOf(def)
                    /\ res.data[n].dynamicFields[k].value = DefaultText(def)

\* C14 amended: a listing has, on every returned record it decrypted that was
\* created before an active definition was, an entry for that definition, with
\* the definition's default or empty value when the record has no stored entry
\* of that label or field name, and leaves the store as it was.
C14_NewDefinitionShowsOnOldRecords ==
    ListDone =>
        /\ records = pre
        /\ \A n \in 1..Len(res.data) : \A k \in 1..Cardinality(ActiveDefs) :
              LET def == fieldDefs[NthActiveDef(k)]
              IN (res.data[n].id <= def.createdAfter /\ res.data[n].form = "decrypted") =>
                    /\ Len(res.data[n].dynamicFields) >= k
                    /\ res.data[n].dynamicFields[k].label = LabelOf(def)
                    /\ (MatchingEntries(res.data[n].id, def) = {} =>
                           res.data[n].dynamicFields[k].value = DefaultText(def))

\* a record stored before the second of two active definitions was created is
\* listed with that definition's default, after a definition that is not active
C14_Witness ==
    /\ ListDone
    /\ Len(fieldDefs) = 2
    /\ ~fieldDefs[1].isActive
    /\ \E n \in 1..Len(res.data) :
          /\ res.data[n].form = "decrypted"
          /\ res.data[n].id <= fieldDefs[2].createdAfter
          /\ 2 \in ActiveDefs
          /\ MatchingEntries(res.data[n].id, fieldDefs[2]) = {}
          /\ records[res.data[n].id].dynamicFields # <<>>
          /\ res.data[n].dynamicFields[1].value = <<"d">>

(* ---- C18 ---- *)

\* the caller's records, newest first: the page of a listing without parameters
OwnRecordsNewestFirst ==
    LET own == {i \in 1..Len(records) : records[i].userId = req.userId}
    IN [n \in 1..Cardinality(own) |->
           CHOOSE i \in own : Cardinality({j \in own : j >= i}) = n]

BothPatchesDone ==
    /\ \A p \in Patchers : inflight[p].pc = "done"
    /\ \A p, q \in Patchers : inflight[p].req.id = inflight[q].req.id

\* the requests whose save wrote, and the one that wrote last
Savers == {p \in Patchers : inflight[p].order > 0}
LastSaver == CHOOSE p \in Savers : \A q \in Savers : inflight[q].order <= inflight[p].order

\* rec without its list of dynamic fields
OtherFields(rec) == [rec EXCEPT !.dynamicFields = <<>>]

\* C16: after two PATCH requests to one record have completed, in whatever
\* order their reads and saves fell, the stored list is the complete normalized
\* list of the request that saved last, and every other field of the record is
\* what each of the two requests read.
C16_LastSaveWins ==
    BothPatchesDone =>
        LET id == inflight[1].req.id
        IN /\ Savers # {} =>
                 records[id].dynamicFields =
                     normalizeFields(inflight[LastSaver].req.dynamicFields)
           /\ \A p \in Patchers : OtherFields(records[id]) = OtherFields(inflight[p].doc)

\* both requests read the record before either saved, both saved, and the one
\* that saved last sent the shorter list
C16_Witness ==
    /\ BothPatchesDone
    /\ Savers = Patchers
    /\ inflight[1].doc = inflight[2].doc
    /\ \A p \in Patchers :
          inflight[p].doc.dynamicFields # normalizeFields(inflight[p].req.dynamicFields)
    /\ \E p \in Patchers :
          /\ p # LastSaver
          /\ Len(normalizeFields(inflight[p].req.dynamicFields)) >
                Len(normalizeFields(inflight[LastSaver].req.dynamicFields))
    /\ Len(records[inflight[1].req.id].dynamicFields) > 0

(* ---- C20 ---- *)

\* the stored records of the caller
OwnRecords == {i \in 1..Len(records) : records[i].userId = req.userId}

\* C20: whatever the query parameters, every record a listing returns is a
\* stored record of the caller, and totalRecords counts records of the caller
\* only.
C20_ListingOnlyOwnRecords ==
    (req.handler = "records" /\ Answered) =>
        /\ \A n \in 1..Len(res.data) :
              /\ res.data[n].id \in OwnRecords
              /\ res.data[n].userId = req.userId
        /\ res.total <= Cardinality(OwnRecords)
        /\ Len(res.data) <= res.total

\* the store holds only a record of another user, which the search term and the
\* status operator of the request match, and the listing is empty
C20_Witness ==
    /\ ListDone
    /\ records # <<>>
    /\ OwnRecords = {}
    /\ req.query.search = Str(<<"1">>)
    /\ req.query.status.t = "object"
    /\ records[1].status # "rejected"
    /\ res.data = <<>>
    /\ res.total = 0

====
